---- MODULE Spec2Model ----
(***************************************************************************)
(* Real-time chat subsystem of the admin dashboard: the chat_messages      *)
(* table and the three DatabaseStorage chat operations, the WebSocket      *)
(* server on /ws whose 'message' handler persists a chat envelope and      *)
(* then fans the stored row out to every open client.                      *)
(***************************************************************************)
EXTENDS Integers, Sequences, FiniteSets, TLC

\* ------------------------------------------------------------------ bounds
\* Clients that connect to /ws, and frames they submit, in Spec.
MaxChannels == 2
MaxEnvelopes == 1
\* Frames the single client of BurstSpec submits.
MaxBurst == 2
\* Rows createChatMessage may add when called directly, in StoreSpec.
MaxRows == 3
\* Latest reading of the database clock when it may stand still.
MaxClock == 1
\* WebSockets the Chat component creates, and entries added to its message
\* list by sends and inbound frames, in ClientSpec.
MaxSockets == 2
MaxAppends == 2
\* Envelopes the component wrote whose broadcast has not arrived yet.
MaxInflight == 1

\* ------------------------------------------------------------------ values
Users == {"u1", "u2"}
\* The ids in the users table, which sender_id and receiver_id reference:
\* those users, and one whose id is that of the first user the Chat page
\* lists ("1"); the id of the second ("2") is no row of the table.
UsersTable == Users \cup {"1"}
Undefined == "<undefined>"
Null == "<null>"
Channels == 1..MaxChannels

\* Inbound frames as the handler sees them: wf is whether JSON.parse succeeds.
ChatEnvelope(s, r, c, a) ==
    [wf |-> TRUE, type |-> "chat", senderId |-> s, receiverId |-> r,
     content |-> c, attachmentUrl |-> a]
MalformedFrame ==
    [wf |-> FALSE, type |-> Undefined, senderId |-> Undefined,
     receiverId |-> Undefined, content |-> Undefined, attachmentUrl |-> Undefined]
OtherFrame ==
    [wf |-> TRUE, type |-> "ping", senderId |-> Undefined,
     receiverId |-> Undefined, content |-> Undefined, attachmentUrl |-> Undefined]
\* Frames the clients submit over their channels.
Frames ==
    {ChatEnvelope("u1", "u2", "hello", Undefined),
     ChatEnvelope("u2", "u2", "hello", Undefined),
     ChatEnvelope("u2", "u1", Undefined, Undefined),
     MalformedFrame, OtherFrame}

\* The envelopes among them that the store accepts.
BurstFrames == {f \in Frames : f.type = "chat" /\ f.content # Undefined}

\* Those frames and the envelopes at the edges of what the handler reads: an
\* empty content, no senderId, an attachment, an empty attachment, a null
\* content, a receiverId that is no row of the users table.
IntakeFrames ==
    Frames \cup
    {ChatEnvelope("u1", "u2", "", Undefined),
     ChatEnvelope(Undefined, "u2", "hello", Undefined),
     ChatEnvelope("u1", "u2", "hello", "file.pdf"),
     ChatEnvelope("u1", "u2", "hello", ""),
     ChatEnvelope("u1", "u2", Null, Undefined),
     ChatEnvelope("u1", "2", "hello", Undefined)}

\* Messages handed to storage.createChatMessage when it is called directly.
Inserts ==
    {[senderId |-> s, receiverId |-> r, message |-> "hello",
      attachmentUrl |-> Null] : s \in Users, r \in Users}
      \cup {[senderId |-> "u1", receiverId |-> "u2", message |-> m,
             attachmentUrl |-> Null] : m \in {Undefined, Null}}
      \cup {[senderId |-> "u1", receiverId |-> "2", message |-> "hello",
             attachmentUrl |-> Null]}

\* The user whose client opens each channel; the third comes without a session.
ChanUser(c) == IF c % 3 = 1 THEN "u1" ELSE IF c % 3 = 2 THEN "u2" ELSE Undefined

VARIABLES
    chan,      \* readyState of each server-side socket
    clients,   \* wss.clients, in insertion order
    tasks,     \* invocations of the 'message' handler, in arrival order
    store,     \* the chat_messages table, in insertion order
    now,       \* the database clock read by defaultNow()
    sendLog,   \* every client.send the server made, in order
    ret,       \* what the storage call made in the last step returned
    up,        \* whether the server process is running
    mounted,          \* whether the Chat component is mounted
    isAuthenticated,  \* useAuth().isAuthenticated
    authLoading,      \* useAuth().isLoading
    socks,            \* the WebSockets the component created, in order
    wsRef,            \* wsRef.current: an index into socks, 0 for null
    cleanup,          \* the socket the registered cleanup closes, 0 if none
    redirect,         \* whether the redirect to /api/login is under way
    effectDue,        \* whether the WebSocket effect is due after a render
    isConnected,      \* useState(false)
    messages,         \* useState<ChatMessage[]>([]), with every update made
    renderDue,        \* whether updates of the list wait for their render
    rowRendered,      \* whether the list rendered last holds a stored row
    renderError,      \* whether a render threw and unmounted the tree
    newMessage,       \* useState(""): the input, as its characters
    selectedUser,     \* useState<ChatUser | null>(null): the id, or Null
    wire,             \* what the last step wrote to a socket, if anything
    inflight          \* envelopes written whose broadcast may still arrive

\* The server and its store.
svars == <<chan, clients, tasks, store, now, sendLog, ret, up>>
\* The Chat component in one browser.
cvars == <<mounted, isAuthenticated, authLoading, socks, wsRef, cleanup,
           redirect, effectDue, isConnected, messages, renderDue,
           rowRendered, renderError, newMessage, selectedUser, wire,
           inflight>>

vars == <<chan, clients, tasks, store, now, sendLog, ret, up,
          mounted, isAuthenticated, authLoading, socks, wsRef, cleanup,
          redirect, effectDue, isConnected, messages, renderDue,
          rowRendered, renderError, newMessage, selectedUser, wire,
          inflight>>

\* ------------------------------------------------------------------ helpers
Range(s) == {s[i] : i \in 1..Len(s)}

NoReturn ==
    [op |-> "none", id |-> 0, a |-> "", b |-> "", outcome |-> "none",
     rows |-> <<>>, matched |-> <<>>]

\* ------------------------------------------------------------ message store
\* id: gen_random_uuid() is a value no stored row carries.
NewId(s) == Len(s) + 1

\* A value left undefined is not sent: a column without default gets NULL.
ColumnValue(v) == IF v = Undefined THEN Null ELSE v

\* The row INSERT ... RETURNING builds: id, read and createdAt from the
\* column defaults, the rest from the values given.
NewRow(s, t, ins) ==
    [id |-> NewId(s), senderId |-> ColumnValue(ins.senderId),
     receiverId |-> ColumnValue(ins.receiverId),
     message |-> ColumnValue(ins.message),
     attachmentUrl |-> ColumnValue(ins.attachmentUrl),
     read |-> FALSE, createdAt |-> t]

\* references(() => users.id) on a nullable column: NULL or the id of a row
\* of the users table.
ForeignKeyHolds(v) == v = Null \/ v \in UsersTable

\* The constraints of the table: message is text NOT NULL, so a value that
\* is null or left undefined is refused, and sender_id and receiver_id
\* reference users.id.
InsertAllowed(ins) ==
    /\ ColumnValue(ins.message) # Null
    /\ ForeignKeyHolds(ColumnValue(ins.senderId))
    /\ ForeignKeyHolds(ColumnValue(ins.receiverId))

\* Variant: the insert writes over the newest row instead of adding one.
InsertRowOverwrite(s, row) ==
    IF s = <<>> THEN <<row>> ELSE [s EXCEPT ![Len(s)] = row]

InsertRow(s, row) == Append(s, row)

\* Variant: the conversation is matched in both directions.
QueryMatchEither(row, userId1, userId2) ==
    \/ row.senderId = userId1 /\ row.receiverId = userId2
    \/ row.senderId = userId2 /\ row.receiverId = userId1

\* WHERE sender_id = userId1 AND receiver_id = userId2
QueryMatch(row, userId1, userId2) ==
    row.senderId = userId1 /\ row.receiverId = userId2

\* ORDER BY created_at: ascending, the order among equal keys unspecified.
OrderedBy(rows) ==
    \A i, j \in 1..Len(rows) : i < j => rows[i].createdAt <= rows[j].createdAt

QueryResults(s, userId1, userId2) ==
    LET M == {i \in 1..Len(s) : QueryMatch(s[i], userId1, userId2)}
        n == Cardinality(M)
        P == {f \in [1..n -> M] : \A x, y \in 1..n : x # y => f[x] # f[y]}
    IN {r \in {[k \in 1..n |-> s[f[k]]] : f \in P} : OrderedBy(r)}

\* Variant: the update flips the flag instead of setting it.
MarkReadToggle(s, messageId) ==
    [i \in 1..Len(s) |->
        IF s[i].id = messageId THEN [s[i] EXCEPT !.read = ~s[i].read] ELSE s[i]]

\* Variant: the update has no WHERE clause.
MarkReadEvery(s, messageId) ==
    [i \in 1..Len(s) |-> [s[i] EXCEPT !.read = TRUE]]

\* UPDATE chat_messages SET read = true WHERE id = messageId
MarkReadStore(s, messageId) ==
    [i \in 1..Len(s) |->
        IF s[i].id = messageId THEN [s[i] EXCEPT !.read = TRUE] ELSE s[i]]

\* The update resolves whatever the number of rows it matched.
MarkReadOutcome(s, messageId) == "resolved"

Matched(s, messageId) == SelectSeq(s, LAMBDA r : r.id = messageId)

\* ------------------------------------------------------- websocket server
OpenChannels == {c \in Channels : chan[c] = "open"}

\* Variant: the attachment of the envelope is not passed on.
InsertOfNoAttachment(env) ==
    [senderId |-> env.senderId, receiverId |-> env.receiverId,
     message |-> env.content, attachmentUrl |-> Null]

\* The object handed to storage.createChatMessage.
InsertOf(env) ==
    [senderId |-> env.senderId, receiverId |-> env.receiverId,
     message |-> env.content,
     attachmentUrl |-> IF env.attachmentUrl \in {Undefined, Null, ""}
                       THEN Null ELSE env.attachmentUrl]

OutFrame(row) == [type |-> "chat", data |-> row]

\* Variant: only the clients of the two participants are served.
EligibleParticipant(c, env) ==
    chan[c] = "open" /\ ChanUser(c) \in {env.senderId, env.receiverId}

\* Variant: the test is readyState !== WebSocket.CLOSED.
EligibleNotClosed(c, env) == chan[c] # "closed"

\* client.readyState === WebSocket.OPEN
Eligible(c, env) == chan[c] = "open"

\* Variant: the readyState test is missing.
DeliveriesUnchecked(h, row) ==
    [i \in 1..Len(clients) |->
        [h |-> h, to |-> clients[i], frame |-> OutFrame(row)]]

\* wss.clients.forEach: one send per eligible client, in set order.
Deliveries(h, row) ==
    LET to == SelectSeq(clients, LAMBDA c : Eligible(c, tasks[h].env))
    IN [i \in 1..Len(to) |-> [h |-> h, to |-> to[i], frame |-> OutFrame(row)]]

\* Variant: the catch block tells the sending client about the failure.
CatchDeliveriesNotify(h) ==
    <<[h |-> h, to |-> tasks[h].chan,
       frame |-> [type |-> "error",
                  data |-> NewRow(store, now, InsertOf(tasks[h].env))]]>>

\* catch (error): console.error only.
CatchDeliveries(h) == <<>>

Init ==
    /\ chan = [c \in Channels |-> "none"]
    /\ clients = <<>>
    /\ tasks = <<>>
    /\ store = <<>>
    /\ now = 0
    /\ sendLog = <<>>
    /\ ret = NoReturn
    /\ up = TRUE
    /\ mounted = FALSE
    /\ isAuthenticated = FALSE
    /\ authLoading = FALSE
    /\ socks = <<>>
    /\ wsRef = 0
    /\ cleanup = 0
    /\ redirect = FALSE
    /\ effectDue = FALSE
    /\ isConnected = FALSE
    /\ messages = <<>>
    /\ renderDue = FALSE
    /\ rowRendered = FALSE
    /\ renderError = FALSE
    /\ newMessage = <<>>
    /\ selectedUser = Null
    /\ wire = <<>>
    /\ inflight = <<>>

\* A client connects to /ws: the socket is OPEN and joins wss.clients.
Connect(c) ==
    /\ up
    /\ chan[c] = "none"
    /\ \A d \in Channels : d < c => chan[d] # "none"
    /\ chan' = [chan EXCEPT ![c] = "open"]
    /\ clients' = Append(clients, c)
    /\ ret' = NoReturn
    /\ UNCHANGED <<tasks, store, now, sendLog>>
    /\ UNCHANGED up
    /\ UNCHANGED cvars

\* Close handshake or transport failure begins: readyState CLOSING.
BeginClose(c) ==
    /\ up
    /\ chan[c] = "open"
    /\ chan' = [chan EXCEPT ![c] = "closing"]
    /\ ret' = NoReturn
    /\ UNCHANGED <<clients, tasks, store, now, sendLog>>
    /\ UNCHANGED up
    /\ UNCHANGED cvars

\* 'close' is emitted: readyState CLOSED, the socket leaves wss.clients.
FinishClose(c) ==
    /\ up
    /\ chan[c] = "closing"
    /\ chan' = [chan EXCEPT ![c] = "closed"]
    /\ clients' = SelectSeq(clients, LAMBDA d : d # c)
    /\ ret' = NoReturn
    /\ UNCHANGED <<tasks, store, now, sendLog>>
    /\ UNCHANGED up
    /\ UNCHANGED cvars

\* A client writes a frame that breaks the protocol (not masked, RSV1 set,
\* text that is not UTF-8): the socket emits 'error', which has no listener,
\* so the process exits. Every socket is gone with it, and the handler
\* invocations that were pending never resume.
ProtocolError(c) ==
    /\ up
    /\ chan[c] = "open"
    /\ up' = FALSE
    /\ chan' = [d \in Channels |->
                  IF chan[d] \in {"open", "closing"} THEN "closed" ELSE chan[d]]
    /\ clients' = <<>>
    /\ tasks' = [h \in 1..Len(tasks) |->
                   IF tasks[h].pc \in {"await", "resolved"}
                   THEN [tasks[h] EXCEPT !.pc = "lost"] ELSE tasks[h]]
    /\ ret' = NoReturn
    /\ UNCHANGED <<store, now, sendLog>>
    /\ UNCHANGED cvars

\* How many clients have connected so far; they connect in channel order,
\* so a channel above this number connects later. Kept with each invocation
\* to tell the clients that were there when its frame arrived.
Joined == Cardinality({d \in Channels : chan[d] # "none"})

\* Variant: the handler does not look at message.type.
HandlerReceiveAnyType(c, f) ==
    /\ up
    /\ chan[c] = "open"
    /\ tasks' = Append(tasks,
          [chan |-> c, env |-> f, rows |-> <<>>, joined |-> Joined,
           pc |-> IF ~f.wf THEN "caught" ELSE "await"])
    /\ ret' = NoReturn
    /\ UNCHANGED <<chan, clients, store, now, sendLog>>
    /\ UNCHANGED up
    /\ UNCHANGED cvars

\* ws.on('message'): up to the await of storage.createChatMessage.
HandlerReceive(c, f) ==
    /\ up
    /\ chan[c] = "open"
    /\ tasks' = Append(tasks,
          [chan |-> c, env |-> f, rows |-> <<>>, joined |-> Joined,
           pc |-> IF ~f.wf THEN "caught"
                  ELSE IF f.type = "chat" THEN "await" ELSE "ignored"])
    /\ ret' = NoReturn
    /\ UNCHANGED <<chan, clients, store, now, sendLog>>
    /\ UNCHANGED up
    /\ UNCHANGED cvars

\* Variant: the sender stored is the user who opened the channel.
DbInsertBound(h, t) ==
    /\ up
    /\ tasks[h].pc = "await"
    /\ InsertAllowed(InsertOf(tasks[h].env))
    /\ LET row == NewRow(store, t,
                     [InsertOf(tasks[h].env)
                         EXCEPT !.senderId = ChanUser(tasks[h].chan)])
       IN /\ store' = InsertRow(store, row)
          /\ tasks' = [tasks EXCEPT ![h].pc = "resolved", ![h].rows = <<row>>]
    /\ now' = t
    /\ ret' = NoReturn
    /\ UNCHANGED <<chan, clients, sendLog>>
    /\ UNCHANGED up
    /\ UNCHANGED cvars

\* The pending insert commits, at clock reading t, and the promise resolves
\* with the row. Inserts go through a connection pool: those pending at the
\* same time complete in any order.
DbInsert(h, t) ==
    /\ up
    /\ tasks[h].pc = "await"
    /\ InsertAllowed(InsertOf(tasks[h].env))
    /\ LET row == NewRow(store, t, InsertOf(tasks[h].env))
       IN /\ store' = InsertRow(store, row)
          /\ tasks' = [tasks EXCEPT ![h].pc = "resolved", ![h].rows = <<row>>]
    /\ now' = t
    /\ ret' = NoReturn
    /\ UNCHANGED <<chan, clients, sendLog>>
    /\ UNCHANGED up
    /\ UNCHANGED cvars

\* The handler resumes after the await and broadcasts. The forEach is
\* synchronous: it runs to its end inside one turn of the event loop, so no
\* connection opens or closes between two of its sends.
HandlerResume(h) ==
    /\ up
    /\ tasks[h].pc = "resolved"
    /\ sendLog' = sendLog \o Deliveries(h, tasks[h].rows[1])
    /\ tasks' = [tasks EXCEPT ![h].pc = "done"]
    /\ ret' = NoReturn
    /\ UNCHANGED <<chan, clients, store, now>>
    /\ UNCHANGED up
    /\ UNCHANGED cvars

\* Variant: the catch block closes the channel the envelope came from.
HandlerCatchClose(h) ==
    /\ up
    /\ tasks[h].pc = "await"
    /\ sendLog' = sendLog \o CatchDeliveries(h)
    /\ tasks' = [tasks EXCEPT ![h].pc = "caught"]
    /\ chan' = [chan EXCEPT ![tasks[h].chan] =
                   IF @ = "open" THEN "closing" ELSE @]
    /\ ret' = NoReturn
    /\ UNCHANGED <<clients, store, now>>
    /\ UNCHANGED up
    /\ UNCHANGED cvars

\* The pending insert fails (constraint violation or storage outage): the
\* await throws and the handler runs its catch block.
HandlerCatch(h) ==
    /\ up
    /\ tasks[h].pc = "await"
    /\ sendLog' = sendLog \o CatchDeliveries(h)
    /\ tasks' = [tasks EXCEPT ![h].pc = "caught"]
    /\ ret' = NoReturn
    /\ UNCHANGED <<chan, clients, store, now>>
    /\ UNCHANGED up
    /\ UNCHANGED cvars

\* storage.markMessageAsRead(messageId)
MarkMessageAsRead(messageId) ==
    /\ up
    /\ store' = MarkReadStore(store, messageId)
    /\ ret' = [NoReturn EXCEPT !.op = "markMessageAsRead", !.id = messageId,
                               !.outcome = MarkReadOutcome(store, messageId),
                               !.matched = Matched(store, messageId)]
    /\ UNCHANGED <<chan, clients, tasks, now, sendLog>>
    /\ UNCHANGED up
    /\ UNCHANGED cvars

\* storage.getChatMessages(userId1, userId2)
GetChatMessages(userId1, userId2) ==
    /\ up
    /\ \E r \in QueryResults(store, userId1, userId2) :
          ret' = [NoReturn EXCEPT !.op = "getChatMessages", !.a = userId1,
                                  !.b = userId2, !.outcome = "resolved",
                                  !.rows = r]
    /\ UNCHANGED <<chan, clients, tasks, store, now, sendLog>>
    /\ UNCHANGED up
    /\ UNCHANGED cvars

\* storage.createChatMessage(message), called and awaited to completion.
CreateChatMessage(ins, t) ==
    /\ up
    /\ Len(store) < MaxRows
    /\ IF InsertAllowed(ins)
       THEN LET row == NewRow(store, t, ins)
            IN /\ store' = InsertRow(store, row)
               /\ now' = t
               /\ ret' = [NoReturn EXCEPT !.op = "createChatMessage",
                                          !.outcome = "resolved",
                                          !.rows = <<row>>]
       ELSE /\ UNCHANGED <<store, now>>
            /\ ret' = [NoReturn EXCEPT !.op = "createChatMessage",
                                       !.outcome = "rejected"]
    /\ UNCHANGED <<chan, clients, tasks, sendLog>>
    /\ UNCHANGED up
    /\ UNCHANGED cvars

\* What the database clock can read at the next insert: it does not run
\* backwards, and two inserts can fall on the same reading.
ClockReadings == {t \in {now, now + 1} : t <= MaxClock}

\* Ids a caller may address: those stored and one that matches nothing.
MessageIds == 1..(Len(store) + 1)

\* Operations of the storage interface open to any caller.
StorageCalls ==
    \/ \E m \in MessageIds : MarkMessageAsRead(m)
    \/ \E a \in Users, b \in Users : GetChatMessages(a, b)

\* The pending handler invocations take their next step.
HandlerSteps ==
    \/ \E h \in 1..Len(tasks), t \in ClockReadings : DbInsert(h, t)
    \/ \E h \in 1..Len(tasks) : HandlerResume(h)
    \/ \E h \in 1..Len(tasks) : HandlerCatch(h)

\* Variant: routes expose getChatMessages and markMessageAsRead.
NextWithChatRoutes ==
    \/ \E c \in Channels : Connect(c)
    \/ \E c \in Channels : BeginClose(c)
    \/ \E c \in Channels : FinishClose(c)
    \/ \E c \in Channels : ProtocolError(c)
    \/ \E c \in Channels, f \in Frames :
          Len(tasks) < MaxEnvelopes /\ HandlerReceive(c, f)
    \/ HandlerSteps
    \/ StorageCalls

\* The server as registerRoutes assembles it, with up to MaxChannels clients
\* and MaxEnvelopes frames: no route calls the chat operations of the storage
\* interface, the 'message' handler is their only caller.
Next ==
    \/ \E c \in Channels : Connect(c)
    \/ \E c \in Channels : BeginClose(c)
    \/ \E c \in Channels : FinishClose(c)
    \/ \E c \in Channels : ProtocolError(c)
    \/ \E c \in Channels, f \in Frames :
          Len(tasks) < MaxEnvelopes /\ HandlerReceive(c, f)
    \/ HandlerSteps

Spec == Init /\ [][Next]_vars

\* The same steps with every insert falling on a later clock reading.
BurstSteps ==
    \/ \E h \in 1..Len(tasks) : DbInsert(h, now + 1)
    \/ \E h \in 1..Len(tasks) : HandlerResume(h)
    \/ \E h \in 1..Len(tasks) : HandlerCatch(h)

\* One client submitting up to MaxBurst chat envelopes back to back, with
\* the storage interface open to other callers meanwhile.
NextBurst ==
    \/ Connect(1)
    \/ BeginClose(1)
    \/ FinishClose(1)
    \/ ProtocolError(1)
    \/ \E f \in BurstFrames : Len(tasks) < MaxBurst /\ HandlerReceive(1, f)
    \/ BurstSteps
    \/ StorageCalls

BurstSpec == Init /\ [][NextBurst]_vars

\* The storage interface driven alone, each call awaited before the next.
NextStore ==
    \/ \E ins \in Inserts, t \in ClockReadings : CreateChatMessage(ins, t)
    \/ StorageCalls

StoreSpec == Init /\ [][NextStore]_vars

\* One client submitting up to MaxBurst frames of any shape to the
\* server as registerRoutes assembles it.
NextIntake ==
    \/ Connect(1)
    \/ BeginClose(1)
    \/ FinishClose(1)
    \/ ProtocolError(1)
    \/ \E f \in IntakeFrames :
          Len(tasks) < MaxBurst /\ HandlerReceive(1, f)
    \/ HandlerSteps

IntakeSpec == Init /\ [][NextIntake]_vars

\* ------------------------------------------------------------- chat client
\* user?.id of the signed-in user, and the ids of the users listed.
UserId == "u1"
ChatUsers == {"1", "2"}

\* What the input can hold, as UTF-16 code units: nothing, a no-break
\* space, and "hi" between two spaces.
Inputs == {<<>>, <<160>>, <<32, 104, 105, 32>>}

\* The code units String.prototype.trim strips: WhiteSpace (TAB, VT, FF, SP,
\* NBSP, ZWNBSP and the space separators) and LineTerminator (LF, CR, LS, PS).
Whitespace ==
    {9, 10, 11, 12, 13, 32, 160, 5760, 8232, 8233, 8239, 8287, 12288, 65279}
       \cup (8192..8202)

\* Variant: the input is taken as typed.
TrimNone(str) == str

\* String.prototype.trim
RECURSIVE Trim(_)
Trim(str) ==
    IF str = <<>> THEN str
    ELSE IF Head(str) \in Whitespace THEN Trim(Tail(str))
    ELSE IF str[Len(str)] \in Whitespace
         THEN Trim(SubSeq(str, 1, Len(str) - 1))
    ELSE str

\* Readings of the clock in one send, Date.now() and then new Date(): the
\* second is the first or a later one.
ClientClock == {t \in {1, 2} \X {1, 2} : t[1] <= t[2]}

\* mockMessages: the five entries of the demonstration conversation.
MockMessages ==
    [i \in 1..5 |->
        [id |-> [kind |-> "mock", n |-> i],
         senderId |-> IF i % 2 = 1 THEN "1" ELSE UserId,
         message |-> <<109>>, timestamp |-> 0, read |-> i < 5]]

\* Frames the server may deliver to the client: a broadcast of a message
\* between two other parties, a frame of another type, and one that
\* JSON.parse refuses.
InboundFrames ==
    {[wf |-> TRUE, type |-> "chat",
      data |-> [id |-> [kind |-> "uuid", n |-> 1], senderId |-> "u2",
                receiverId |-> "u2", message |-> <<121, 111>>,
                attachmentUrl |-> Null, read |-> FALSE, createdAt |-> 0]],
     [wf |-> TRUE, type |-> "ping", data |-> Undefined],
     [wf |-> FALSE, type |-> Undefined, data |-> Undefined]}

\* Entries of a list that a send or an inbound frame added.
Appended(msgs) == {i \in 1..Len(msgs) : msgs[i].id.kind # "mock"}

\* WebSocket.close(): a socket that is CONNECTING or OPEN goes CLOSING.
CloseSock(ss, k) ==
    IF k = 0 THEN ss
    ELSE [ss EXCEPT ![k].state =
             IF @ \in {"connecting", "open"} THEN "closing" ELSE @]

\* Variant: the cleanup of the effect leaves the socket as it is.
RunCleanupNothing(ss, k) == ss

\* return () => { ws.close(); }, registered for socket k.
RunCleanup(ss, k) == CloseSock(ss, k)

\* if (!isAuthenticated) return;
EffectConnects(auth) == auth

\* The envelope as the handler parses it.
Parsed(env) ==
    ChatEnvelope(env.senderId, env.receiverId, env.content, Undefined)

\* Whether the server stores, and so broadcasts, an envelope the client
\* wrote: the insert must meet the constraints of the table.
Stored(env) == InsertAllowed(InsertOf(Parsed(env)))

\* The frame the server broadcasts for an envelope the client wrote: the
\* handler parses it, stores it and sends the stored row to every open
\* client, the writer included.
ServerEcho(env) ==
    LET row == [NewRow(<<>>, 0, InsertOf(Parsed(env)))
                   EXCEPT !.id = [kind |-> "uuid", n |-> 2]]
    IN [wf |-> TRUE, type |-> OutFrame(row).type, data |-> OutFrame(row).data]

\* The broadcasts that may arrive on a socket of this browser that is OPEN:
\* the server sends the row to every open client, so the broadcast of an
\* envelope reaches whichever socket is open when it is made, the one the
\* envelope was written on or a later one.
Echoes(k) == {ServerEcho(inflight[i]) : i \in 1..Len(inflight)}

\* q without its entry i.
Without(q, i) == SubSeq(q, 1, i - 1) \o SubSeq(q, i + 1, Len(q))

\* inflight without the envelope whose broadcast f arrived on socket k.
AfterArrival(k, f) ==
    LET I == {i \in 1..Len(inflight) : ServerEcho(inflight[i]) = f}
    IN IF I = {} THEN inflight
       ELSE Without(inflight, CHOOSE x \in I : \A y \in I : x <= y)

\* App.tsx, Router: the routes of the signed-in pages, /chat among them,
\* exist only while useAuth() gives neither isLoading nor !isAuthenticated;
\* otherwise Landing is rendered and the Chat page, if mounted, unmounts.
RouterShowsChat(auth, loading) == ~(loading \/ ~auth)

\* if (authLoading || !isAuthenticated) return <skeleton>: whether the page
\* below that return is shown, so that its handlers can run.
Shown(m, auth, loading) == m /\ ~(loading \/ ~auth)

Rendered == Shown(mounted, isAuthenticated, authLoading)

\* The message input and the send button exist once a user is selected.
InputShown == Rendered /\ selectedUser # Null

\* message.timestamp.toLocaleTimeString(...): a stored row carries createdAt
\* and no timestamp, so the call is made on undefined.
HasTimestamp(msg) == "timestamp" \in DOMAIN msg

\* Whether a list holds a stored row.
HoldsRow(msgs) == \E i \in 1..Len(msgs) : ~HasTimestamp(msgs[i])

\* Whether a render throws: the page is shown with user sel selected, so the
\* list is mapped, and it holds a stored row.
RenderThrows(shown, sel, row) ==
    /\ shown
    /\ sel # Null
    /\ row

\* if (!authLoading && !isAuthenticated): the effect shows the toast and
\* sets the timer that sends the browser to /api/login.
EffectRedirects(auth, loading) == ~loading /\ ~auth

\* The effects of a render run on sockets ss with the values auth and
\* loading of useAuth(). The first shows the toast and sets the redirect
\* timer, or does nothing. The WebSocket effect returns at once, or new
\* WebSocket(wsUrl) throws and the catch logs, or the socket is created,
\* kept in wsRef and its close registered as cleanup.
RunEffect(ss, auth, loading, throws) ==
    IF EffectConnects(auth) /\ ~throws
    THEN [socks |-> Append(ss, [state |-> "connecting", live |-> TRUE]),
          wsRef |-> Len(ss) + 1, cleanup |-> Len(ss) + 1,
          redirect |-> redirect \/ EffectRedirects(auth, loading)]
    ELSE [socks |-> ss, wsRef |-> wsRef, cleanup |-> 0,
          redirect |-> redirect \/ EffectRedirects(auth, loading)]

\* The sockets, wsRef, the registered cleanup and the redirect once the
\* effects that are due have run: the cleanup of the last run, ws.close(),
\* then the effects with the values of the render that made them due. Every
\* render begins with this.
Flushed(throws) ==
    IF effectDue
    THEN RunEffect(RunCleanup(socks, cleanup), isAuthenticated, authLoading,
                   throws)
    ELSE [socks |-> socks, wsRef |-> wsRef, cleanup |-> cleanup,
          redirect |-> redirect]

\* A render that did not throw is committed on the flushed effects fl.
Commit(fl) ==
    /\ socks' = fl.socks
    /\ wsRef' = fl.wsRef
    /\ cleanup' = fl.cleanup
    /\ redirect' = fl.redirect

\* The Chat page is unmounted on the flushed effects fl: the state of the
\* instance is gone and the callbacks of its sockets no longer reach a
\* mounted component. The cleanup of the WebSocket effect runs with the
\* commit if the unmount comes from a click (atOnce), and otherwise stays
\* registered, the socket as it is, until a later task.
Teardown(fl, atOnce) ==
    /\ mounted' = FALSE
    /\ socks' = [k \in 1..Len(fl.socks) |->
                    [(IF atOnce THEN RunCleanup(fl.socks, fl.cleanup)
                                ELSE fl.socks)[k] EXCEPT !.live = FALSE]]
    /\ wsRef' = 0
    /\ cleanup' = IF atOnce THEN 0 ELSE fl.cleanup
    /\ redirect' = fl.redirect
    /\ effectDue' = FALSE
    /\ isConnected' = FALSE
    /\ messages' = <<>>
    /\ renderDue' = FALSE
    /\ rowRendered' = FALSE
    /\ newMessage' = <<>>
    /\ selectedUser' = Null

\* The route /chat is shown: the Chat page mounts with its initial state
\* and its effects are due. The render first runs a cleanup that still
\* waits from the last unmount.
Mount ==
    /\ ~mounted
    /\ RouterShowsChat(isAuthenticated, authLoading)
    /\ mounted' = TRUE
    /\ socks' = RunCleanup(socks, cleanup)
    /\ cleanup' = 0
    /\ effectDue' = TRUE
    /\ wire' = <<>>
    /\ UNCHANGED <<isAuthenticated, authLoading, wsRef, redirect,
                   isConnected, messages, renderDue, rowRendered,
                   newMessage, selectedUser>>
    /\ UNCHANGED inflight
    /\ renderError' = FALSE
    /\ UNCHANGED svars

\* The effects that are due run in a task of their own after the render
\* was committed. Socket callbacks can run between the render and this.
FlushEffects(throws) ==
    /\ mounted
    /\ effectDue
    /\ Commit(Flushed(throws))
    /\ effectDue' = FALSE
    /\ wire' = <<>>
    /\ UNCHANGED <<mounted, isAuthenticated, authLoading, isConnected,
                   messages, renderDue, rowRendered, newMessage,
                   selectedUser>>
    /\ UNCHANGED inflight
    /\ UNCHANGED renderError
    /\ UNCHANGED svars

\* The cleanup that an unmount left registered runs in its task.
FlushCleanup ==
    /\ ~mounted
    /\ cleanup # 0
    /\ socks' = RunCleanup(socks, cleanup)
    /\ cleanup' = 0
    /\ wire' = <<>>
    /\ UNCHANGED <<mounted, isAuthenticated, authLoading, wsRef, redirect,
                   effectDue, isConnected, messages, renderDue, rowRendered,
                   newMessage, selectedUser>>
    /\ UNCHANGED inflight
    /\ UNCHANGED renderError
    /\ UNCHANGED svars

\* Another route is shown: the Chat page unmounts.
Unmount(throws, atOnce) ==
    /\ mounted
    /\ Teardown(Flushed(throws), atOnce)
    /\ wire' = <<>>
    /\ UNCHANGED <<isAuthenticated, authLoading>>
    /\ UNCHANGED inflight
    /\ UNCHANGED renderError
    /\ UNCHANGED svars

\* useAuth() reports other values and Router renders again, which first
\* runs a cleanup that still waits. A mounted Chat page had isAuthenticated
\* and not isLoading, so with the other values Router shows Landing and the
\* Chat page unmounts without rendering again.
AuthChange(auth, loading, throws, atOnce) ==
    /\ <<auth, loading>> # <<isAuthenticated, authLoading>>
    /\ isAuthenticated' = auth
    /\ authLoading' = loading
    /\ IF ~mounted
       THEN /\ socks' = RunCleanup(socks, cleanup)
            /\ cleanup' = 0
            /\ UNCHANGED <<mounted, wsRef, redirect, effectDue, isConnected,
                           messages, renderDue, rowRendered, newMessage,
                           selectedUser>>
       ELSE /\ ~RouterShowsChat(auth, loading)
            /\ Teardown(Flushed(throws), atOnce)
    /\ wire' = <<>>
    /\ UNCHANGED inflight
    /\ UNCHANGED renderError
    /\ UNCHANGED svars

\* onChange of the input, and the render at the end of the event.
TypeInput(text, throws) ==
    /\ InputShown
    /\ text # newMessage
    /\ newMessage' = text
    /\ Commit(Flushed(throws))
    /\ effectDue' = FALSE
    /\ wire' = <<>>
    /\ UNCHANGED <<mounted, isAuthenticated, authLoading, isConnected,
                   messages, renderDue, rowRendered, selectedUser>>
    /\ UNCHANGED inflight
    /\ UNCHANGED renderError
    /\ UNCHANGED svars

\* A user of the list is clicked: setSelectedUser and, at the end of the
\* click, the render with that user and the list as it was rendered last.
\* If that render throws, the tree is unmounted and the cleanup of the
\* WebSocket effect waits for a later task. Otherwise the effect on
\* selectedUser runs with the commit and calls setMessages(mockMessages),
\* an update that is rendered later, after those already waiting. A click
\* on the user already selected leaves selectedUser equal: nothing renders.
SelectUser(u, throws) ==
    /\ Rendered
    /\ u # selectedUser
    /\ IF RenderThrows(Rendered, u, rowRendered)
       THEN Teardown(Flushed(throws), FALSE)
       ELSE /\ selectedUser' = u
            /\ messages' = MockMessages
            /\ renderDue' = TRUE
            /\ Commit(Flushed(throws))
            /\ effectDue' = FALSE
            /\ UNCHANGED <<mounted, isConnected, rowRendered, newMessage>>
    /\ wire' = <<>>
    /\ UNCHANGED <<isAuthenticated, authLoading>>
    /\ UNCHANGED inflight
    /\ renderError' = RenderThrows(Rendered, u, rowRendered)
    /\ UNCHANGED svars

\* The envelope sendMessage writes.
Envelope ==
    [type |-> "chat", senderId |-> UserId, receiverId |-> selectedUser,
     content |-> Trim(newMessage)]

\* The local copy sendMessage appends: Date.now() read t1 for the id, and
\* new Date() read t2 for the timestamp.
Optimistic(t1, t2) ==
    [id |-> [kind |-> "ts", n |-> t1], senderId |-> UserId,
     message |-> Trim(newMessage), timestamp |-> t2, read |-> FALSE]

\* Variant: the envelope is written whatever the readyState.
MayWriteAlways(k) == TRUE

\* wsRef.current.readyState === WebSocket.OPEN
MayWrite(k) == socks[k].state = "open"

\* if (!newMessage.trim() || !selectedUser || !wsRef.current) return;
SendReturns == Trim(newMessage) = <<>> \/ selectedUser = Null \/ wsRef = 0

\* sendMessage(), from the send button or the Enter key, with the clock
\* reading t1 and then t2, and the render of its updates at the end of the
\* event. The call that returns at once updates nothing: nothing renders.
SendMessage(t1, t2, throws) ==
    /\ InputShown
    /\ t1 <= t2
    /\ IF SendReturns
       THEN /\ wire' = <<>>
            /\ UNCHANGED <<messages, newMessage, socks, wsRef, cleanup,
                           redirect, effectDue>>
       ELSE /\ messages' = Append(messages, Optimistic(t1, t2))
            /\ wire' = IF MayWrite(wsRef)
                       THEN <<[sock |-> wsRef, env |-> Envelope]>>
                       ELSE <<>>
            /\ newMessage' = <<>>
            /\ Commit(Flushed(throws))
            /\ effectDue' = FALSE
    /\ inflight' = IF wire' # <<>> /\ Stored(wire'[1].env)
                   THEN Append(inflight, wire'[1].env) ELSE inflight
    /\ UNCHANGED <<mounted, isAuthenticated, authLoading, isConnected,
                   renderDue, rowRendered, selectedUser>>
    /\ UNCHANGED renderError
    /\ UNCHANGED svars

\* The connection of socket k is established: onopen.
SockOpen(k) ==
    /\ socks[k].state = "connecting"
    /\ socks' = [socks EXCEPT ![k].state = "open"]
    /\ isConnected' = IF socks[k].live THEN TRUE ELSE isConnected
    /\ wire' = <<>>
    /\ UNCHANGED <<mounted, isAuthenticated, authLoading, wsRef, cleanup,
                   redirect, effectDue, messages, renderDue, rowRendered,
                   newMessage, selectedUser>>
    /\ UNCHANGED inflight
    /\ UNCHANGED renderError
    /\ UNCHANGED svars

\* Variant: onclose and onerror schedule a reconnect.
SockClosedReconnect(k, failed) ==
    /\ socks[k].state \in {"connecting", "open", "closing"}
    /\ socks' = Append([socks EXCEPT ![k].state = "closed"],
                       [state |-> "connecting", live |-> socks[k].live])
    /\ wsRef' = IF socks[k].live THEN Len(socks) + 1 ELSE wsRef
    /\ isConnected' = IF socks[k].live THEN FALSE ELSE isConnected
    /\ wire' = <<>>
    /\ UNCHANGED <<mounted, isAuthenticated, authLoading, cleanup, redirect,
                   effectDue, messages, renderDue, rowRendered, newMessage,
                   selectedUser>>
    /\ UNCHANGED inflight
    /\ UNCHANGED renderError
    /\ UNCHANGED svars

\* The peer starts the closing handshake on socket k: the browser answers
\* the close frame and readyState goes CLOSING. No event is fired and no
\* handler runs; the close event comes in a later task, when the connection
\* has ended.
SockClosing(k) ==
    /\ socks[k].state = "open"
    /\ socks' = [socks EXCEPT ![k].state = "closing"]
    /\ wire' = <<>>
    /\ UNCHANGED <<mounted, isAuthenticated, authLoading, wsRef, cleanup,
                   redirect, effectDue, isConnected, messages, renderDue,
                   rowRendered, newMessage, selectedUser>>
    /\ UNCHANGED inflight
    /\ UNCHANGED renderError
    /\ UNCHANGED svars

\* The connection of socket k has ended, after a closing handshake either
\* side began or by a failure: readyState CLOSED, then onerror if it
\* failed, then onclose. Both call the setIsConnected of the instance that
\* created the socket.
SockClosed(k, failed) ==
    /\ socks[k].state \in {"connecting", "open", "closing"}
    /\ socks' = [socks EXCEPT ![k].state = "closed"]
    /\ isConnected' = IF socks[k].live THEN FALSE ELSE isConnected
    /\ wire' = <<>>
    /\ UNCHANGED <<mounted, isAuthenticated, authLoading, wsRef, cleanup,
                   redirect, effectDue, messages, renderDue, rowRendered,
                   newMessage, selectedUser>>
    /\ UNCHANGED inflight
    /\ UNCHANGED renderError
    /\ UNCHANGED svars

\* Variant: only a message of the selected user is put in the list.
ReceivedFromSelected(k, f) ==
    IF socks[k].live /\ f.wf /\ f.type = "chat"
          /\ f.data.senderId = selectedUser
    THEN Append(messages, f.data) ELSE messages

\* Variant: the stored record of an own message takes the place of the
\* copy sendMessage had put in the list.
ReceivedReconciled(k, f) ==
    IF socks[k].live /\ f.wf /\ f.type = "chat"
    THEN Append(SelectSeq(messages,
                          LAMBDA e : ~(e.id.kind = "ts"
                                         /\ f.data.senderId = e.senderId
                                         /\ f.data.message = e.message)),
                f.data)
    ELSE messages

\* The list after onmessage took frame f on socket k: the data of a frame of
\* type 'chat' is put at its end, if the socket is one of the mounted
\* component.
Received(k, f) ==
    IF socks[k].live /\ f.wf /\ f.type = "chat"
    THEN Append(messages, f.data) ELSE messages

\* A frame arrives on socket k: onmessage calls setMessages and returns.
\* The update is rendered later, in a task of its own.
SockMessage(k, f) ==
    /\ socks[k].state = "open"
    /\ messages' = Received(k, f)
    /\ renderDue' = (renderDue \/ messages' # messages)
    /\ inflight' = AfterArrival(k, f)
    /\ wire' = <<>>
    /\ UNCHANGED <<mounted, isAuthenticated, authLoading, socks, wsRef,
                   cleanup, redirect, effectDue, isConnected, rowRendered,
                   newMessage, selectedUser>>
    /\ UNCHANGED renderError
    /\ UNCHANGED svars

\* The updates of the list that wait are rendered: the list is mapped if
\* the page is shown with a user selected, and if that throws the tree is
\* unmounted and the cleanup of the WebSocket effect waits for a later task.
Render(throws) ==
    /\ mounted
    /\ renderDue
    /\ IF RenderThrows(Rendered, selectedUser, HoldsRow(messages))
       THEN Teardown(Flushed(throws), FALSE)
       ELSE /\ renderDue' = FALSE
            /\ rowRendered' = HoldsRow(messages)
            /\ Commit(Flushed(throws))
            /\ effectDue' = FALSE
            /\ UNCHANGED <<mounted, isConnected, messages, newMessage,
                           selectedUser>>
    /\ wire' = <<>>
    /\ UNCHANGED <<isAuthenticated, authLoading>>
    /\ UNCHANGED inflight
    /\ renderError' = RenderThrows(Rendered, selectedUser, HoldsRow(messages))
    /\ UNCHANGED svars

\* The broadcast of an envelope the component wrote reaches no socket of
\* this browser: the insert failed, or no socket of it was open then.
EchoLost(i) ==
    /\ i \in 1..Len(inflight)
    /\ inflight' = Without(inflight, i)
    /\ wire' = <<>>
    /\ UNCHANGED <<mounted, isAuthenticated, authLoading, socks, wsRef,
                   cleanup, redirect, effectDue, isConnected, messages,
                   renderDue, rowRendered, newMessage, selectedUser>>
    /\ UNCHANGED renderError
    /\ UNCHANGED svars

\* The Chat page in one browser, creating up to MaxSockets sockets and
\* adding up to MaxAppends entries to its list between two selections.
NextClient ==
    \/ Len(socks) < MaxSockets /\ Mount
    \/ \E throws \in BOOLEAN : FlushEffects(throws)
    \/ FlushCleanup
    \/ \E throws \in BOOLEAN, atOnce \in BOOLEAN : Unmount(throws, atOnce)
    \/ \E auth \in BOOLEAN, loading \in BOOLEAN :
          \E throws \in BOOLEAN, atOnce \in BOOLEAN :
             AuthChange(auth, loading, throws, atOnce)
    \/ \E text \in Inputs, throws \in BOOLEAN : TypeInput(text, throws)
    \/ \E u \in ChatUsers, throws \in BOOLEAN : SelectUser(u, throws)
    \/ \E t \in ClientClock, throws \in BOOLEAN :
          /\ Cardinality(Appended(messages)) < MaxAppends
          /\ Len(inflight) < MaxInflight
          /\ SendMessage(t[1], t[2], throws)
    \/ \E k \in 1..Len(socks) : SockOpen(k)
    \/ \E k \in 1..Len(socks) : SockClosing(k)
    \/ \E k \in 1..Len(socks), failed \in BOOLEAN : SockClosed(k, failed)
    \/ \E k \in 1..Len(socks) : \E f \in InboundFrames \cup Echoes(k) :
          Cardinality(Appended(messages)) < MaxAppends /\ SockMessage(k, f)
    \/ \E throws \in BOOLEAN : Render(throws)
    \/ \E i \in 1..Len(inflight) : EchoLost(i)

ClientSpec == Init /\ [][NextClient]_vars

\* ------------------------------------------------------------------ claims
\* What a step appended to sendLog.
NewSends == SubSeq(sendLog', Len(sendLog) + 1, Len(sendLog'))

\* The step in which handler invocation h broadcasts.
BroadcastStep(h) == tasks[h].pc = "resolved" /\ tasks'[h].pc = "done"

SendsOf(h) == {i \in 1..Len(sendLog) : sendLog[i].h = h}

StorePos(id) == CHOOSE k \in 1..Len(store) : store[k].id = id

\* C1: persist-before-broadcast. Every frame the server has sent belongs to
\* an envelope whose createChatMessage resolved with a row that is in the
\* store; an envelope whose createChatMessage failed, or is still pending,
\* has no frame sent to anyone.
C1_PersistBeforeBroadcast ==
    /\ \A i \in 1..Len(sendLog) :
          LET t == tasks[sendLog[i].h]
          IN /\ t.pc = "done"
             /\ t.rows # <<>>
             /\ \E k \in 1..Len(store) : store[k].id = t.rows[1].id
    /\ \A h \in 1..Len(tasks) :
          tasks[h].pc \in {"await", "resolved", "caught", "ignored"}
             => SendsOf(h) = {}

\* A storable envelope failed to persist while a client was open to receive.
C1_Witness ==
    \E h \in 1..Len(tasks) :
       /\ tasks[h].pc = "caught"
       /\ tasks[h].env.type = "chat"
       /\ InsertAllowed(InsertOf(tasks[h].env))
       /\ OpenChannels # {}

\* C2: when a handler resumes after a successful insert it sends exactly one
\* frame {type: 'chat', data: <the row returned>} to every channel that is
\* OPEN at that moment and to no other, whoever the envelope names as sender
\* and receiver, and leaves the earlier sends as they were.
C2_BroadcastToAllOpen ==
    [][\A h \in 1..Len(tasks) :
          BroadcastStep(h) =>
             /\ SubSeq(sendLog', 1, Len(sendLog)) = sendLog
             /\ {NewSends[i].to : i \in 1..Len(NewSends)} = OpenChannels
             /\ Len(NewSends) = Cardinality(OpenChannels)
             /\ \A i \in 1..Len(NewSends) :
                   /\ NewSends[i].h = h
                   /\ NewSends[i].frame.type = "chat"
                   /\ NewSends[i].frame.data = tasks[h].rows[1]
                   /\ \E k \in 1..Len(store) :
                         store[k].id = NewSends[i].frame.data.id]_vars

\* One broadcast reached the sending channel and a channel whose user is
\* neither the sender nor the receiver named in the envelope.
C2_Witness ==
    \E h \in 1..Len(tasks) : \E i, j \in SendsOf(h) :
       /\ sendLog[i].to = tasks[h].chan
       /\ ChanUser(sendLog[j].to)
             \notin {tasks[h].env.senderId, tasks[h].env.receiverId}

\* C3: fan-out under concurrent close. A broadcast makes as many sends as
\* there are channels OPEN when it starts, one to each, none to a channel
\* that is closing or closed, and no channel changes state and no client
\* joins or leaves wss.clients while it runs.
C3_FanOutUnderClose ==
    [][\A h \in 1..Len(tasks) :
          BroadcastStep(h) =>
             /\ Len(sendLog') - Len(sendLog) = Cardinality(OpenChannels)
             /\ \A c \in Channels :
                   Cardinality({i \in 1..Len(NewSends) : NewSends[i].to = c})
                      = IF chan[c] = "open" THEN 1 ELSE 0
             /\ chan' = chan
             /\ clients' = clients]_vars

\* A client that was connected before the envelope arrived was closing, and
\* still in wss.clients, when the broadcast ran: it was passed over while
\* another client was served.
C3_Witness ==
    \E h \in 1..Len(tasks) : \E c, d \in Channels :
       /\ tasks[h].pc = "done"
       /\ c <= tasks[h].chan
       /\ chan[c] = "closing"
       /\ \A i \in SendsOf(h) : sendLog[i].to # c
       /\ \E i \in SendsOf(h) : sendLog[i].to = d

\* C4: per-sender ordering. Of two chat envelopes the server took from the
\* same channel, the earlier one is stored before the later one and its
\* frame is sent to each common recipient before the later one's.
C4_PerSenderOrder ==
    \A h1, h2 \in 1..Len(tasks) :
       (h1 < h2 /\ tasks[h1].chan = tasks[h2].chan)
          => /\ (tasks[h1].rows # <<>> /\ tasks[h2].rows # <<>>)
                   => StorePos(tasks[h1].rows[1].id)
                         < StorePos(tasks[h2].rows[1].id)
             /\ \A i \in SendsOf(h1), j \in SendsOf(h2) :
                   sendLog[i].to = sendLog[j].to => i < j

\* C5: conversation ordering. createdAt never decreases along the order of
\* creation, and getChatMessages returns the rows of sequentially completed
\* createChatMessage calls in the order they were created, also when two of
\* them carry the same createdAt.
C5_ConversationOrder ==
    /\ \A i, j \in 1..Len(store) :
          i < j => store[i].createdAt <= store[j].createdAt
    /\ ret.op = "getChatMessages" =>
          \A i, j \in 1..Len(ret.rows) :
             i < j => StorePos(ret.rows[i].id) < StorePos(ret.rows[j].id)

\* C6: getChatMessages(a, b) returns every stored row sent by a to b, each
\* once, and nothing else; the results for (a, b) and (b, a) share no row
\* when a and b differ.
C6_ConversationFilter ==
    /\ ret.op = "getChatMessages" =>
          LET want == {k \in 1..Len(store) :
                          /\ store[k].senderId = ret.a
                          /\ store[k].receiverId = ret.b}
          IN /\ Range(ret.rows) = {store[k] : k \in want}
             /\ Len(ret.rows) = Cardinality(want)
    /\ \A a, b \in Users :
          a # b => \A r1 \in QueryResults(store, a, b),
                      r2 \in QueryResults(store, b, a) :
                      Range(r1) \cap Range(r2) = {}

\* A query returned rows while the store also held a row of the opposite
\* direction.
C6_Witness ==
    /\ ret.op = "getChatMessages"
    /\ ret.rows # <<>>
    /\ ret.a # ret.b
    /\ \E k \in 1..Len(store) :
          store[k].senderId = ret.b /\ store[k].receiverId = ret.a

\* C7: markMessageAsRead on a stored id resolves, leaves that row with read
\* set and every other row as it was, and a repeated call (the row already
\* read) leaves the whole store as it was.
C7_MarkReadIdempotent ==
    [][(/\ ret'.op = "markMessageAsRead"
        /\ \E k \in 1..Len(store) : store[k].id = ret'.id)
          => /\ ret'.outcome = "resolved"
             /\ Len(store') = Len(store)
             /\ \A k \in 1..Len(store) :
                   store'[k] = IF store[k].id = ret'.id
                               THEN [store[k] EXCEPT !.read = TRUE]
                               ELSE store[k]
             /\ (\A k \in 1..Len(store) :
                    store[k].id = ret'.id => store[k].read)
                   => store' = store]_vars

\* A second call on a row that was already read has resolved, next to a row
\* that is still unread.
C7_Witness ==
    /\ ret.op = "markMessageAsRead"
    /\ ret.outcome = "resolved"
    /\ \E k \in 1..Len(ret.matched) : ret.matched[k].read
    /\ \E k \in 1..Len(store) : ~store[k].read

\* C8: markMessageAsRead on an id that matches no stored row fails with
\* NotFound.
C8_MarkReadNotFound ==
    (ret.op = "markMessageAsRead" /\ ret.matched = <<>>)
       => ret.outcome = "NotFound"

\* C9: the read flag is monotone. A row enters the store with read false; no
\* step turns a read flag from true to false; a flag turns true only in a
\* markMessageAsRead call addressed to the id of that row.
C9_ReadMonotone ==
    [][/\ \A k \in 1..Len(store) :
             /\ k <= Len(store')
             /\ store[k].read => store'[k].read
             /\ store'[k].read # store[k].read
                   => /\ ret'.op = "markMessageAsRead"
                      /\ ret'.id = store[k].id
       /\ \A k \in (Len(store) + 1)..Len(store') : ~store'[k].read]_vars

\* A row was marked read, then the handler stored another one, unread, and
\* broadcast it.
C9_Witness ==
    \E j, k \in 1..Len(store) : \E h \in 1..Len(tasks) :
       /\ j < k
       /\ store[j].read
       /\ ~store[k].read
       /\ tasks[h].pc = "done"
       /\ tasks[h].rows[1].id = store[k].id

\* The columns no operation writes after the insert.
Frozen(row) ==
    <<row.id, row.senderId, row.receiverId, row.message, row.attachmentUrl,
      row.createdAt>>

\* C10: append-only store. No step removes a row or changes its id, sender,
\* receiver, message, attachment or createdAt; ids stay unique; a step that
\* adds a row leaves the rows before it as they were; markMessageAsRead
\* changes nothing but the read flag of the row it addresses.
C10_AppendOnly ==
    [][/\ Len(store') >= Len(store)
       /\ \A k \in 1..Len(store) : Frozen(store'[k]) = Frozen(store[k])
       /\ \A j, k \in 1..Len(store') :
             store'[j].id = store'[k].id => j = k
       /\ Len(store') > Len(store)
             => SubSeq(store', 1, Len(store)) = store
       /\ ret'.op = "markMessageAsRead"
             => /\ Len(store') = Len(store)
                /\ \A k \in 1..Len(store) :
                      store[k].id # ret'.id => store'[k] = store[k]]_vars

\* Two envelopes were stored by the handler, and markMessageAsRead has just
\* been applied to the first, the second staying unread.
C10_Witness ==
    /\ Len(store) = 2
    /\ \A h \in 1..Len(tasks) : tasks[h].rows # <<>>
    /\ Len(tasks) = 2
    /\ ret.op = "markMessageAsRead"
    /\ ret.id = store[1].id
    /\ store[1].read
    /\ ~store[2].read

\* The handler invocations whose envelope is a chat envelope.
ChatTasks == {h \in 1..Len(tasks) : tasks[h].env.wf /\ tasks[h].env.type = "chat"}

\* C11: an empty message body is rejected. A chat envelope whose content is
\* "" or absent leaves no stored message and no broadcast.
C11_EmptyBodyRejected ==
    \A h \in ChatTasks :
       tasks[h].env.content \in {"", Undefined}
          => /\ tasks[h].rows = <<>>
             /\ SendsOf(h) = {}
             /\ \A k \in 1..Len(store) : store[k].message # ""

\* The value of an envelope field as a column holds it: null when absent.
Held(v) == IF v = Undefined THEN Null ELSE v

\* What C12 says of every handled envelope but the attachment.
RecordOfEnvelope(h) ==
    LET env == tasks[h].env
        row == tasks[h].rows[1]
    IN /\ \E k \in 1..Len(store) :
             /\ store[k] = row
             /\ \A j \in 1..(k - 1) : store[j].id # row.id
       /\ \A i \in SendsOf(h) :
             /\ sendLog[i].frame.type = "chat"
             /\ sendLog[i].frame.data = row
       /\ row.message = env.content
       /\ row.senderId = Held(env.senderId)
       /\ row.receiverId = Held(env.receiverId)
       /\ row.read = FALSE

\* C12, as stated: the record stored for a handled envelope is the data of
\* its broadcast frames, with message = content, senderId and receiverId as
\* in the envelope, attachmentUrl the envelope's value or null when absent,
\* read false and an id no earlier row carries.
C12_AsStated ==
    \A h \in ChatTasks :
       tasks[h].rows # <<>>
          => /\ RecordOfEnvelope(h)
             /\ tasks[h].rows[1].attachmentUrl = Held(tasks[h].env.attachmentUrl)

\* C12: the record stored for a handled envelope is the data of its
\* broadcast frames, with message = content, senderId and receiverId as in
\* the envelope, attachmentUrl the envelope's value when that is a non-empty
\* string and null when it is absent or empty, read false and an id no
\* earlier row carries.
C12_StoredRecordMatches ==
    \A h \in ChatTasks :
       tasks[h].rows # <<>>
          => /\ RecordOfEnvelope(h)
             /\ tasks[h].rows[1].attachmentUrl =
                   IF tasks[h].env.attachmentUrl \in {Undefined, ""}
                   THEN Null ELSE tasks[h].env.attachmentUrl

\* An envelope carrying an attachment was stored and broadcast.
C12_Witness ==
    \E h \in ChatTasks :
       /\ tasks[h].pc = "done"
       /\ tasks[h].env.attachmentUrl = "file.pdf"
       /\ tasks[h].rows[1].attachmentUrl = "file.pdf"
       /\ SendsOf(h) # {}

\* C13: a malformed inbound frame is dropped. A frame that fails to parse,
\* or a chat envelope without senderId, receiverId or content, leaves no
\* stored message and no frame sent to anyone.
C13_MalformedDropped ==
    \A h \in 1..Len(tasks) :
       (\/ ~tasks[h].env.wf
        \/ /\ tasks[h].env.type = "chat"
           /\ Undefined \in {tasks[h].env.senderId, tasks[h].env.receiverId,
                             tasks[h].env.content})
          => /\ tasks[h].rows = <<>>
             /\ SendsOf(h) = {}

\* C14: no error is sent over the channel. Every frame the server has
\* written is {type: 'chat', data: <a row that is in the store>}; a frame
\* that failed to parse, an envelope whose insert failed and a frame of
\* another type have no frame written for them.
C14_NoErrorFrames ==
    /\ \A i \in 1..Len(sendLog) :
          /\ sendLog[i].frame.type = "chat"
          /\ \E k \in 1..Len(store) : store[k] = sendLog[i].frame.data
    /\ \A h \in 1..Len(tasks) :
          (~tasks[h].env.wf \/ tasks[h].env.type # "chat"
              \/ tasks[h].pc = "caught")
             => SendsOf(h) = {}

\* A chat frame was written to a client other than the one that submitted
\* the envelope.
C14_Witness ==
    \E i \in 1..Len(sendLog) :
       /\ sendLog[i].to # tasks[sendLog[i].h].chan
       /\ sendLog[i].frame.type = "chat"
       /\ \E k \in 1..Len(store) : store[k] = sendLog[i].frame.data

\* C15: a persistence failure drops the envelope and nothing else. The step
\* in which an insert fails leaves the store, the sent frames, the state of
\* every channel and wss.clients as they were; the failed invocation never
\* takes another step, so createChatMessage is attempted once per envelope;
\* no invocation goes back to a pending insert.
C15_FailureDropsEnvelope ==
    [][\A h \in 1..Len(tasks) :
          /\ (tasks[h].pc = "await" /\ tasks'[h].pc = "caught")
                => /\ store' = store
                   /\ sendLog' = sendLog
                   /\ chan' = chan
                   /\ clients' = clients
          /\ tasks[h].pc = "caught" => tasks'[h] = tasks[h]
          /\ tasks[h].pc # "await" => tasks'[h].pc # "await"]_vars

\* The insert of one envelope failed; a later envelope of the same channel
\* was stored and broadcast to that channel, which is open and registered.
C15_Witness ==
    \E h1, h2 \in 1..Len(tasks) :
       /\ h1 < h2
       /\ tasks[h1].chan = tasks[h2].chan
       /\ tasks[h1].pc = "caught"
       /\ tasks[h2].pc = "done"
       /\ \E k \in 1..Len(store) : store[k].id = tasks[h2].rows[1].id
       /\ \E i \in SendsOf(h2) : sendLog[i].to = tasks[h1].chan
       /\ chan[tasks[h1].chan] = "open"
       /\ tasks[h1].chan \in Range(clients)

\* C16: registry membership tracks channel state. A channel is in
\* wss.clients, once, exactly while it is open or closing; it moves only
\* forward from not connected to open, closing and closed (or from open
\* straight to closed when the process exits); it leaves
\* wss.clients in the step that closes it and never comes back; every send
\* goes to a channel that is open and registered at that moment, so none
\* goes to a closed one.
C16_RegistryTracksState ==
    /\ [](/\ \A c \in Channels :
                c \in Range(clients) <=> chan[c] \in {"open", "closing"}
          /\ \A i, j \in 1..Len(clients) : i # j => clients[i] # clients[j])
    /\ [][/\ \A c \in Channels :
                /\ chan'[c] # chan[c]
                      => <<chan[c], chan'[c]>> \in
                            {<<"none", "open">>, <<"open", "closing">>,
                             <<"closing", "closed">>, <<"open", "closed">>}
                /\ (c \in Range(clients) /\ c \notin Range(clients'))
                      => chan[c] # "closed" /\ chan'[c] = "closed"
                /\ (c \notin Range(clients) /\ chan[c] # "none")
                      => c \notin Range(clients')
          /\ \A i \in 1..Len(NewSends) :
                /\ chan[NewSends[i].to] = "open"
                /\ NewSends[i].to \in Range(clients)]_vars

\* A channel has closed and left wss.clients; a broadcast of an envelope
\* from a channel connected after it served another client and not it.
C16_Witness ==
    \E c \in Channels : \E h \in 1..Len(tasks) :
       /\ chan[c] = "closed"
       /\ c \notin Range(clients)
       /\ c < tasks[h].chan
       /\ tasks[h].pc = "done"
       /\ SendsOf(h) # {}
       /\ \A i \in SendsOf(h) : sendLog[i].to # c

\* C17: the failure of one channel touches that channel only. A step that
\* takes a channel to closing or closed leaves every other channel in its
\* state and in wss.clients, and the pending invocations, the store and the
\* sent frames as they were; once closed the channel is out of wss.clients;
\* and whenever an invocation is about to broadcast, every open channel is
\* among its recipients.
C17_ErrorIsLocal ==
    /\ [](\A h \in 1..Len(tasks) : \A d \in OpenChannels :
             tasks[h].pc = "resolved"
                => \E i \in 1..Len(Deliveries(h, tasks[h].rows[1])) :
                      Deliveries(h, tasks[h].rows[1])[i].to = d)
    /\ [][\A c \in Channels :
             (chan[c] \in {"open", "closing"} /\ chan'[c] # chan[c])
                => /\ \A d \in Channels \ {c} :
                         /\ chan'[d] = chan[d]
                         /\ d \in Range(clients') <=> d \in Range(clients)
                   /\ tasks' = tasks
                   /\ store' = store
                   /\ sendLog' = sendLog
                   /\ chan'[c] = "closed" => c \notin Range(clients')]_vars

\* The sockets of the component that are CONNECTING or OPEN.
Active == {k \in 1..Len(socks) : socks[k].state \in {"connecting", "open"}}

\* C18: the Chat component holds at most one channel and opens it only
\* while authenticated. At most one of the WebSockets it created is
\* CONNECTING or OPEN; a step creates at most one socket, and only in the
\* mounted component with isAuthenticated true when the effect runs.
C18_OneChannelWhileAuthenticated ==
    /\ [](Cardinality(Active) <= 1)
    /\ [][Len(socks') > Len(socks)
             => /\ Len(socks') = Len(socks) + 1
                /\ isAuthenticated
                /\ mounted]_vars

\* The Chat page was unmounted and mounted again: the socket of the first
\* instance was closed by its cleanup and is still closing, that of the
\* second is open and held in wsRef.
C18_Witness ==
    /\ mounted
    /\ Len(socks) >= 2
    /\ ~socks[1].live
    /\ socks[1].state = "closing"
    /\ socks[2].live
    /\ socks[2].state = "open"
    /\ wsRef = 2

\* A call of sendMessage.
SendStep ==
    \E t \in ClientClock, throws \in BOOLEAN :
       SendMessage(t[1], t[2], throws)

\* C19: client send. When sendMessage runs with a non-blank input, a
\* selected user and a channel reference, it appends the optimistic copy to
\* the list, and it writes {type: 'chat', senderId, receiverId, content} to
\* the socket in wsRef exactly when that socket is OPEN at that moment; an
\* envelope is written in no other step, so one that was not written is
\* never written later, whatever the sockets do.
C19_ClientSend ==
    /\ [][(SendStep
              /\ Trim(newMessage) # <<>> /\ selectedUser # Null /\ wsRef # 0)
            => /\ Len(messages') = Len(messages) + 1
               /\ SubSeq(messages', 1, Len(messages)) = messages
               /\ messages'[Len(messages')].id.kind = "ts"
               /\ messages'[Len(messages')].senderId = UserId
               /\ messages'[Len(messages')].message = Trim(newMessage)
               /\ wire' = IF socks[wsRef].state = "open"
                          THEN <<[sock |-> wsRef,
                                  env |-> [type |-> "chat",
                                           senderId |-> UserId,
                                           receiverId |-> selectedUser,
                                           content |-> Trim(newMessage)]]>>
                          ELSE <<>>]_vars
    /\ [][wire' # <<>>
            => /\ SendStep
               /\ socks' = socks
               /\ socks[wsRef].state = "open"]_vars

\* sendMessage ran while the only socket was still connecting: the
\* optimistic copy is in the list and nothing was written.
C19_Witness ==
    /\ Len(socks) = 1
    /\ socks[1].state = "connecting"
    /\ wsRef = 1
    /\ messages # <<>>
    /\ messages[Len(messages)].id.kind = "ts"
    /\ wire = <<>>
    /\ newMessage = <<>>

\* C20: client close handling. When a socket of the mounted component
\* closes, cleanly or after an error, isConnected becomes false; a socket
\* is created only by a run of the effect that was due, and the effect
\* becomes due only in a step that mounts the component or changes
\* isAuthenticated, never by a close, an error or any other event.
C20_CloseNoReconnect ==
    [][/\ \A k \in 1..Len(socks) :
             (socks[k].live /\ socks[k].state # "closed"
                 /\ k <= Len(socks') /\ socks'[k].state = "closed")
                => ~isConnected'
       /\ Len(socks') > Len(socks) => effectDue
       /\ effectDue'
             => \/ effectDue /\ Len(socks') = Len(socks)
                \/ mounted' # mounted
                \/ isAuthenticated' # isAuthenticated]_vars

\* The only socket of the mounted, authenticated component had delivered a
\* frame and has closed: the component shows disconnected and has opened no
\* other socket.
C20_Witness ==
    /\ mounted
    /\ isAuthenticated
    /\ Len(socks) = 1
    /\ socks[1].state = "closed"
    /\ socks[1].live
    /\ \E i \in 1..Len(messages) : messages[i].id.kind = "uuid"
    /\ ~isConnected

\* C21: client receive. A frame of type 'chat' arriving on a socket of the
\* mounted component puts its data at the end of the message list, whoever
\* it names as sender and receiver and whichever user is selected, if any;
\* a frame that does not parse, or of another type, leaves the list as it
\* was. Nothing else of the component changes.
C21_ClientReceive ==
    [][\A k \in 1..Len(socks) : \A f \in InboundFrames :
          (SockMessage(k, f) /\ socks[k].live)
             => /\ (f.wf /\ f.type = "chat")
                      => messages' = Append(messages, f.data)
                /\ ~(f.wf /\ f.type = "chat") => messages' = messages
                /\ selectedUser' = selectedUser
                /\ newMessage' = newMessage]_vars

\* With a user selected, a message between two other parties has been put
\* after the mock conversation.
C21_Witness ==
    /\ mounted
    /\ selectedUser # Null
    /\ Len(messages) = Len(MockMessages) + 1
    /\ SubSeq(messages, 1, Len(MockMessages)) = MockMessages
    /\ messages[Len(messages)].id.kind = "uuid"
    /\ messages[Len(messages)].senderId \notin {UserId, selectedUser}
    /\ messages[Len(messages)].receiverId # UserId

\* The handler invocations for a frame that parses and is not of type 'chat'.
OtherTasks == {h \in 1..Len(tasks) : tasks[h].env.wf /\ tasks[h].env.type # "chat"}

\* C22: a frame that parses as JSON and whose type is not 'chat' is ignored.
\* Its invocation ends at once without calling createChatMessage, holds no
\* row and has no frame sent; the step that takes the frame in leaves the
\* store and the sent frames as they were, and the invocation takes no
\* further step.
C22_OtherTypeIgnored ==
    /\ [](\A h \in OtherTasks :
             /\ tasks[h].pc = "ignored"
             /\ tasks[h].rows = <<>>
             /\ SendsOf(h) = {})
    /\ [][/\ (Len(tasks') > Len(tasks)
                /\ tasks'[Len(tasks')].env.wf
                /\ tasks'[Len(tasks')].env.type # "chat")
               => /\ store' = store
                  /\ sendLog' = sendLog
                  /\ ret'.op = "none"
          /\ \A h \in OtherTasks : tasks'[h] = tasks[h]]_vars

\* A frame of type 'ping' was taken from a channel that is still open, and
\* nothing was stored or sent.
C22_Witness ==
    \E h \in OtherTasks :
       /\ tasks[h].env.type = "ping"
       /\ chan[tasks[h].chan] = "open"
       /\ store = <<>>
       /\ sendLog = <<>>

\* isConnected is true only if the socket in wsRef is OPEN.
IndicatorSound == isConnected => (wsRef # 0 /\ socks[wsRef].state = "open")

\* The close of a socket other than the one in wsRef, while that one is
\* open, leaves isConnected as it was.
LateCloseHarmless ==
    \A k \in 1..Len(socks) :
       (/\ wsRef # 0 /\ k # wsRef
        /\ socks[wsRef].state = "open"
        /\ socks[k].state # "closed"
        /\ Len(socks') = Len(socks) /\ socks'[k].state = "closed")
          => isConnected' = isConnected

\* C23: connectivity indicator consistency. In every state isConnected is
\* true only if the socket held in wsRef is OPEN, and when the effect has
\* run again a late onclose or onerror of the earlier socket does not turn
\* isConnected false while the later socket is open.
C23_IndicatorConsistent ==
    /\ []IndicatorSound
    /\ [][LateCloseHarmless]_vars

\* C24: the server echo duplicates the sender's own message. When the
\* broadcast of an envelope the component wrote arrives on its socket, the
\* stored record, with its store-generated id, is put at the end of the
\* list and every entry already there, the optimistic copy included, stays
\* as it is; and no step changes or removes a single entry: the list only
\* grows at its end or is replaced whole by a selection or an unmount.
C24_EchoDuplicates ==
    /\ [][\A k \in 1..Len(socks) : \A f \in Echoes(k) :
             (SockMessage(k, f) /\ socks[k].live)
                => /\ messages' = Append(messages, f.data)
                   /\ f.data.id.kind = "uuid"
                   /\ f.data.senderId = UserId]_vars
    /\ [][\/ messages' = messages
          \/ /\ Len(messages') = Len(messages) + 1
             /\ SubSeq(messages', 1, Len(messages)) = messages
          \/ messages' = MockMessages
          \/ messages' = <<>>]_vars

\* The list ends with the copy sendMessage appended and, after it, the
\* stored record of the same message.
C24_Witness ==
    /\ mounted
    /\ Len(messages) = Len(MockMessages) + 2
    /\ messages[Len(messages) - 1].id.kind = "ts"
    /\ messages[Len(messages) - 1].senderId = UserId
    /\ messages[Len(messages)].id.kind = "uuid"
    /\ messages[Len(messages)].senderId = UserId
    /\ messages[Len(messages)].message = messages[Len(messages) - 1].message

\* C25: identity is not bound to the channel. The sender of the stored row
\* and of every frame broadcast for it is the senderId of the envelope,
\* whoever opened the channel the envelope came in on.
C25_SenderFromEnvelope ==
    \A h \in ChatTasks :
       tasks[h].pc \in {"resolved", "done"}
          => /\ tasks[h].rows[1].senderId = Held(tasks[h].env.senderId)
             /\ \E k \in 1..Len(store) :
                   /\ store[k].id = tasks[h].rows[1].id
                   /\ store[k].senderId = Held(tasks[h].env.senderId)
             /\ \A i \in SendsOf(h) :
                   sendLog[i].frame.data.senderId = Held(tasks[h].env.senderId)

\* A message naming one user as its sender came in on the channel another
\* user opened, was stored under that name and broadcast.
C25_Witness ==
    \E h \in ChatTasks : \E k \in 1..Len(store) :
       /\ tasks[h].pc = "done"
       /\ tasks[h].env.senderId \in Users
       /\ ChanUser(tasks[h].chan) # tasks[h].env.senderId
       /\ store[k] = tasks[h].rows[1]
       /\ store[k].senderId = tasks[h].env.senderId
       /\ \E i \in SendsOf(h) :
             sendLog[i].frame.data.senderId = tasks[h].env.senderId

\* C26: the recipients of a broadcast are those open when persistence
\* completes, not when the envelope arrived. A change of channel state
\* leaves a pending invocation as it is; the broadcast of an invocation
\* whose own channel is no longer open still goes out, for a row that is in
\* the store, to every channel open at that moment and not to its own; and
\* a channel that connected after the envelope arrived and is open at the
\* broadcast is served.
C26_RecipientsAtCompletion ==
    [][\A h \in 1..Len(tasks) :
          /\ (tasks[h].pc \in {"await", "resolved"} /\ chan' # chan)
                => tasks'[h] = tasks[h]
          /\ BroadcastStep(h)
                => LET to == {NewSends[i].to : i \in 1..Len(NewSends)}
                   IN /\ \E k \in 1..Len(store) : store[k] = tasks[h].rows[1]
                      /\ chan[tasks[h].chan] # "open"
                            => /\ tasks[h].chan \notin to
                               /\ to = OpenChannels
                      /\ \A d \in OpenChannels :
                            d > tasks[h].joined => d \in to]_vars

\* C28: in the assembled server nothing calls markMessageAsRead or
\* getChatMessages: no step is a call of either, every stored row has read
\* false and every frame sent carries read false.
C28_ReadAlwaysFalse ==
    /\ ret.op \notin {"markMessageAsRead", "getChatMessages"}
    /\ \A k \in 1..Len(store) : store[k].read = FALSE
    /\ \A i \in 1..Len(sendLog) : sendLog[i].frame.data.read = FALSE

\* A row is stored and its frame has gone to two clients, read false in the
\* store and in both frames.
C28_Witness ==
    /\ store # <<>>
    /\ Len(sendLog) >= 2
    /\ \A k \in 1..Len(store) : ~store[k].read
    /\ \A i \in 1..Len(sendLog) : ~sendLog[i].frame.data.read

\* The list begins with the mock conversation.
StartsWithMock ==
    /\ Len(messages) >= Len(MockMessages)
    /\ SubSeq(messages, 1, Len(MockMessages)) = MockMessages

\* C27: selecting a user replaces the whole message list with the mock
\* conversation, whatever had been received or appended before, and a
\* message that arrives while a user is selected is put after the mock
\* conversation, at the end of the list.
C27_SelectLoadsMock ==
    [][/\ \A u \in ChatUsers : \A throws \in BOOLEAN :
             SelectUser(u, throws)
                => (selectedUser' = u /\ messages' = MockMessages)
       /\ \A k \in 1..Len(socks) : \A f \in InboundFrames \cup Echoes(k) :
             (/\ SockMessage(k, f)
              /\ socks[k].live /\ f.wf /\ f.type = "chat"
              /\ selectedUser # Null)
                => /\ StartsWithMock'
                   /\ messages' = Append(messages, f.data)]_vars

\* A string of white space only, the empty string included.
Blank(str) == \A i \in 1..Len(str) : str[i] \in Whitespace

\* out is str without its leading and trailing white space.
TrimmedOf(str, out) ==
    /\ out # <<>>
    /\ out[1] \notin Whitespace
    /\ out[Len(out)] \notin Whitespace
    /\ \E a \in 0..Len(str) :
          /\ a + Len(out) <= Len(str)
          /\ out = SubSeq(str, a + 1, a + Len(out))
          /\ \A i \in 1..Len(str) :
                (i <= a \/ i > a + Len(out)) => str[i] \in Whitespace

\* C29: sendMessage does nothing when the input is empty or white space,
\* when no user is selected or when there is no channel reference: list and
\* input stay and nothing is written. Otherwise the copy appended, and the
\* content written if anything is written, are the input without its
\* surrounding white space, and the input is cleared.
C29_SendMessageGuards ==
    [][SendStep =>
             IF Blank(newMessage) \/ selectedUser = Null \/ wsRef = 0
             THEN /\ messages' = messages
                  /\ newMessage' = newMessage
                  /\ wire' = <<>>
             ELSE /\ Len(messages') = Len(messages) + 1
                  /\ SubSeq(messages', 1, Len(messages)) = messages
                  /\ TrimmedOf(newMessage, messages'[Len(messages')].message)
                  /\ wire' # <<>> =>
                        /\ Len(wire') = 1
                        /\ TrimmedOf(newMessage, wire'[1].env.content)
                  /\ newMessage' = <<>>]_vars

\* sendMessage has just written an envelope: content and optimistic copy are
\* "hi", the input typed was "hi" between two spaces, and the input is
\* empty again.
C29_Witness ==
    /\ wire # <<>>
    /\ wire[1].sock = wsRef
    /\ wire[1].env.content = <<104, 105>>
    /\ messages # <<>>
    /\ messages[Len(messages)].id.kind = "ts"
    /\ messages[Len(messages)].message = <<104, 105>>
    /\ newMessage = <<>>
====
